---- MODULE Spec2Model ----
(***************************************************************************)
(* Model of the tool layer (run_mysql_query, generate_and_save_audio) and  *)
(* of the chat server's shared state (selectedModel, chatHistory).         *)
(*                                                                         *)
(* Strings whose characters the code inspects (the SQL statement, the      *)
(* mimeType descriptor) are sequences of one-character strings.  Strings   *)
(* the code only builds (the returned texts) are TLA+ strings; a text with *)
(* several lines is the sequence of its lines, i.e. the string split at    *)
(* "\n".                                                                   *)
(***************************************************************************)
EXTENDS Integers, Sequences, FiniteSets, TLC

VARIABLES qpc, cleanQuery, connection, pending, qresult, dbReply, conns, dbCalls

VARIABLES apc, response, sampleRate, bitsPerSample, pcmData, wavBuffer, filePath,
          aresult, files

VARIABLES selectedModel, chatHistory, cpc, llm, reply

qvars == <<qpc, cleanQuery, connection, pending, qresult, dbReply, conns, dbCalls>>

avars == <<apc, response, sampleRate, bitsPerSample, pcmData, wavBuffer, filePath,
           aresult, files>>

cvars == <<selectedModel, chatHistory, cpc, llm, reply>>

vars == <<qvars, avars, cvars>>

(***************************************************************************)
(* Bounds                                                                  *)
(***************************************************************************)
NumCalls == 2

(***************************************************************************)
(* Character-level string functions                                        *)
(***************************************************************************)
UpperChars == <<"A","B","C","D","E","F","G","H","I","J","K","L","M",
                "N","O","P","Q","R","S","T","U","V","W","X","Y","Z">>

LowerChars == <<"a","b","c","d","e","f","g","h","i","j","k","l","m",
                "n","o","p","q","r","s","t","u","v","w","x","y","z">>

WhiteSpace == {" ", "\t", "\n", "\r"}

\* String.prototype.toLowerCase on one character
LowerChar(ch) ==
  IF \E i \in 1..26 : UpperChars[i] = ch
    THEN LowerChars[CHOOSE i \in 1..26 : UpperChars[i] = ch]
    ELSE ch

\* String.prototype.toLowerCase
toLowerCase(s) == [i \in 1..Len(s) |-> LowerChar(s[i])]

\* String.prototype.trim: drop the white space at both ends
trim(s) ==
  LET ix == {i \in 1..Len(s) : s[i] \notin WhiteSpace}
  IN  IF ix = {} THEN <<>>
      ELSE SubSeq(s, CHOOSE i \in ix : \A j \in ix : i <= j,
                     CHOOSE i \in ix : \A j \in ix : i >= j)

\* String.prototype.startsWith
startsWith(s, p) == Len(s) >= Len(p) /\ SubSeq(s, 1, Len(p)) = p

kwSelect   == <<"s","e","l","e","c","t">>
kwDescribe == <<"d","e","s","c","r","i","b","e">>
kwInsert   == <<"i","n","s","e","r","t">>
kwShow     == <<"s","h","o","w">>

AllowedKeywords == {kwSelect, kwDescribe, kwInsert, kwShow}

kwUpdate   == <<"u","p","d","a","t","e">>

\* the allow-list test with a fifth keyword let through
PassesAllowListAlsoUpdate(cq) ==
  \/ startsWith(toLowerCase(cq), kwSelect)
  \/ startsWith(toLowerCase(cq), kwDescribe)
  \/ startsWith(toLowerCase(cq), kwInsert)
  \/ startsWith(toLowerCase(cq), kwShow)
  \/ startsWith(toLowerCase(cq), kwUpdate)

\* lines 20-25: the allow-list test of run_mysql_query, on the trimmed statement
PassesAllowList(cq) ==
  ~ ( ~startsWith(toLowerCase(cq), kwSelect) /\
      ~startsWith(toLowerCase(cq), kwDescribe) /\
      ~startsWith(toLowerCase(cq), kwInsert) /\
      ~startsWith(toLowerCase(cq), kwShow) )

IsInsert(cq) == startsWith(toLowerCase(cq), kwInsert)

\* the leading token of a trimmed statement: its characters up to the first
\* white space
LeadingToken(cq) ==
  LET ws == {i \in 1..Len(cq) : cq[i] \in WhiteSpace}
  IN  IF ws = {} THEN cq
      ELSE SubSeq(cq, 1, (CHOOSE i \in ws : \A j \in ws : i <= j) - 1)

(***************************************************************************)
(* Inputs of run_mysql_query                                               *)
(***************************************************************************)
Queries ==
  { <<"S","E","L","E","C","T"," ","1">>,
    <<" "," ","s","e","l","e","c","t"," ","a"," ">>,
    <<"I","n","s","e","r","t"," ","x">>,
    <<"s","h","o","w"," ","t">>,
    <<"\t","D","E","S","C","R","I","B","E"," ","t","\n">>,
    <<"u","p","d","a","t","e"," ","t">>,
    <<"d","r","o","p"," ","t">>,
    <<"s","e","l","e","c","t","x"," ","1">>,
    <<"s","h","o","w","i","n","g">>,
    <<"s","e","l">>,
    <<" ">> }

(***************************************************************************)
(* Values, rows and database replies                                       *)
(***************************************************************************)
MaxAffected == 2

MaxRows == 12

\* rows.length <= 10 : the largest result rendered in full
ShowAllLimit == 10

\* rows.slice(0, 5) : the number of rows shown of a larger result
SampleSize == 5

Num(n)  == [t |-> "number", n |-> n, s |-> ""]
Str(s)  == [t |-> "string", n |-> 0, s |-> s]
NullVal == [t |-> "null",   n |-> 0, s |-> ""]

\* a row is an object: its entries <<column, value>> in column order
RowA == << <<"id", Num(7)>>,  <<"name", Str("ann")>> >>
RowB == << <<"id", Num(12)>>, <<"name", NullVal>> >>

ErrNoSuchTable == [code |-> "ER_NO_SUCH_TABLE",   message |-> "Table 'db.t' doesn't exist"]
ErrBadField    == [code |-> "ER_BAD_FIELD_ERROR", message |-> "Unknown column 'a' in 'field list'"]
ErrParse       == [code |-> "ER_PARSE_ERROR",     message |-> "You have an error in your SQL syntax"]
ErrConnRefused == [code |-> "ECONNREFUSED",       message |-> "connect ECONNREFUSED 127.0.0.1:3306"]
ErrNotArray    == [code |-> "",                   message |-> "rows.slice is not a function"]
NoError        == [code |-> "",                   message |-> ""]

ExecuteErrors == {ErrNoSuchTable, ErrBadField, ErrParse}
ConnectErrors == {ErrConnRefused}

NoResult == <<>>

NoReply == [kind |-> "none", affectedRows |-> 0, insertId |-> 0, rows |-> <<>>, error |-> NoError]

InsertReply(affectedRows, insertId) ==
  [kind |-> "insert", affectedRows |-> affectedRows, insertId |-> insertId,
   rows |-> <<>>, error |-> NoError]

RowsReply(rows) ==
  [kind |-> "rows", affectedRows |-> 0, insertId |-> 0, rows |-> rows, error |-> NoError]

HeaderReply == [NoReply EXCEPT !.kind = "header"]

ErrorReply(error) == [NoReply EXCEPT !.kind = "error", !.error = error]

(***************************************************************************)
(* The texts run_mysql_query returns                                       *)
(***************************************************************************)
Refusal ==
  <<"Only SELECT, DESCRIBE, INSERT and SHOW queries are allowed for security reasons.">>

NoResultsText ==
  <<"Query executed successfully but returned no results. The table might be empty or your conditions did not match any records.">>

NoRowsAffectedText == <<"Query executed successfully but no rows were affected.">>

\* `${value}` : the string a template literal makes of a value
TemplateString(value) ==
  CASE value.t = "number" -> ToString(value.n)
    [] value.t = "string" -> value.s
    [] value.t = "null"   -> "null"

RECURSIVE join(_, _)
\* Array.prototype.join
join(a, sep) ==
  IF Len(a) = 0 THEN ""
  ELSE IF Len(a) = 1 THEN a[1]
  ELSE a[1] \o sep \o join(Tail(a), sep)

\* Array.prototype.slice(start, end)
slice(a, start, end) ==
  SubSeq(a, start + 1, IF end < Len(a) THEN end ELSE Len(a))

\* Object.entries(row).map(([key, value]) => `${key}: ${value}`).join(', ')
rowData(row) ==
  join([k \in 1..Len(row) |-> row[k][1] \o ": " \o TemplateString(row[k][2])], ", ")

\* the callback of rows.map; index is the 0-based array index
RowLine(row, index) ==
  "Row " \o ToString(index + 1) \o ": {" \o rowData(row) \o "}"

\* rows.map(...) : one line per row
formattedRows(rows) == [i \in 1..Len(rows) |-> RowLine(rows[i], i - 1)]

\* the trailer counting every row instead of the rows left out
SampleTrailerAll(rows) ==
  "... and " \o ToString(Len(rows)) \o " more records."

\* line 70: the last line of a sampled result
SampleTrailer(rows) ==
  "... and " \o ToString(Len(rows) - 5) \o " more records."

\* lines 46-71: the text for the rows of a select / describe / show
FormatRows(rows) ==
  IF Len(rows) = 0 THEN NoResultsText
  ELSE IF Len(rows) <= ShowAllLimit
    THEN <<"Found " \o ToString(Len(rows)) \o " record(s):">> \o formattedRows(rows)
    ELSE <<"Found " \o ToString(Len(rows)) \o " record(s). Showing first 5:">>
           \o formattedRows(slice(rows, 0, SampleSize))
           \o <<SampleTrailer(rows)>>

\* lines 34-40 with the test affectedRows > 1
InsertResultOffByOne(affectedRows, insertId) ==
  IF affectedRows > 1
    THEN <<"Query executed successfully. " \o ToString(affectedRows)
             \o " row(s) affected. Insert ID: " \o ToString(insertId)>>
    ELSE NoRowsAffectedText

\* lines 34-40: the text for the result of an insert
InsertResult(affectedRows, insertId) ==
  IF affectedRows > 0
    THEN <<"Query executed successfully. " \o ToString(affectedRows)
             \o " row(s) affected. Insert ID: " \o ToString(insertId)>>
    ELSE NoRowsAffectedText

\* lines 73-82: the text the catch block returns
CatchResult(error) ==
  IF error.code = "ER_NO_SUCH_TABLE"
    THEN <<"Table not found. Please check the table name. Available tables might include: games, cards etc.">>
  ELSE IF error.code = "ER_BAD_FIELD_ERROR"
    THEN <<"Column not found. Please check your column names. Use DESCRIBE tablename to see available columns.">>
  ELSE <<"Database error: " \o error.message \o ". Please check your SQL syntax.">>

(***************************************************************************)
(* run_mysql_query: one invocation per element of Calls; the steps are the *)
(* stretches of code between two awaits                                    *)
(***************************************************************************)
Calls == 1..NumCalls

RowsOfLen(n) == [i \in 1..n |-> IF i % 2 = 1 THEN RowA ELSE RowB]

\* the row sets the database answers with in the concurrent model
QueryRowSets == {RowsOfLen(0), RowsOfLen(ShowAllLimit + 1)}

\* the statements of the concurrent model
ConcQueries ==
  { <<" ","S","e","l","e","c","t"," ","a","\n">>,
    <<"I","n","s","e","r","t"," ","x">>,
    <<"u","p","d","a","t","e"," ","t">> }

\* three ways to fill a result with rows
RowAt(pattern, i) ==
  IF pattern = 1 THEN RowA
  ELSE IF (i + pattern) % 2 = 0 THEN RowA ELSE RowB

\* the results of at most MaxRows rows of the one-call model
RowSeqs == {[i \in 1..n |-> RowAt(pattern, i)] : n \in 0..MaxRows, pattern \in 1..3}

InsertIds == {41}

InitQuery ==
  /\ qpc = [c \in Calls |-> "idle"]
  /\ cleanQuery = [c \in Calls |-> <<>>]
  /\ connection = [c \in Calls |-> 0]
  /\ pending = [c \in Calls |-> NoResult]
  /\ qresult = [c \in Calls |-> NoResult]
  /\ dbReply = [c \in Calls |-> NoReply]
  /\ conns = <<>>
  /\ dbCalls = <<>>

\* `connection` declared once for all calls: it names the connection opened last
ConnOfShared(c) == Len(conns)

\* line 27: the connection the code of call c acts on, its local variable
ConnOf(c) == connection[c]

\* lines 17-29: trim, allow-list test, then mysql.createConnection is started
Invoke(c, query) ==
  /\ qpc[c] = "idle"
  /\ cleanQuery' = [cleanQuery EXCEPT ![c] = trim(query)]
  /\ IF PassesAllowList(trim(query))
       THEN /\ qpc' = [qpc EXCEPT ![c] = "connecting"]
            /\ UNCHANGED qresult
       ELSE /\ qpc' = [qpc EXCEPT ![c] = "returned"]
            /\ qresult' = [qresult EXCEPT ![c] = Refusal]
  /\ UNCHANGED <<connection, pending, dbReply, conns, dbCalls,
                 avars, cvars>>

\* line 29 resolves; lines 30-33 / 44: connection.execute(cleanQuery) is started
ConnectOk(c) ==
  /\ qpc[c] = "connecting"
  /\ conns' = Append(conns, [owner |-> c, open |-> TRUE, endedBy |-> 0])
  /\ connection' = [connection EXCEPT ![c] = Len(conns) + 1]
  /\ dbCalls' = Append(dbCalls, [conn |-> Len(conns) + 1, by |-> c, sql |-> cleanQuery[c]])
  /\ qpc' = [qpc EXCEPT ![c] = "executing"]
  /\ UNCHANGED <<cleanQuery, pending, qresult, dbReply,
                 avars, cvars>>

\* the finally block (83-87) entered with a value to return: connection.end()
\* is started when there is a connection
EnterFinally(c, text) ==
  IF ConnOf(c) # 0
    THEN /\ qpc' = [qpc EXCEPT ![c] = "ending"]
         /\ pending' = [pending EXCEPT ![c] = text]
         /\ UNCHANGED qresult
    ELSE /\ qpc' = [qpc EXCEPT ![c] = "returned"]
         /\ qresult' = [qresult EXCEPT ![c] = text]
         /\ UNCHANGED pending

\* line 29 rejects: catch (73-82), then finally with connection still undefined
ConnectFail(c, error) ==
  /\ qpc[c] = "connecting"
  /\ dbReply' = [dbReply EXCEPT ![c] = ErrorReply(error)]
  /\ EnterFinally(c, CatchResult(error))
  /\ UNCHANGED <<cleanQuery, connection, conns, dbCalls,
                 avars, cvars>>

\* line 33 resolves for an insert: lines 34-40, then finally
ExecuteInsertOk(c, affectedRows, insertId) ==
  /\ qpc[c] = "executing"
  /\ IsInsert(cleanQuery[c])
  /\ dbReply' = [dbReply EXCEPT ![c] = InsertReply(affectedRows, insertId)]
  /\ EnterFinally(c, InsertResult(affectedRows, insertId))
  /\ UNCHANGED <<cleanQuery, connection, conns, dbCalls,
                 avars, cvars>>

\* line 44 resolves with an array of rows: lines 46-71, then finally
ExecuteRowsOk(c, rows) ==
  /\ qpc[c] = "executing"
  /\ ~IsInsert(cleanQuery[c])
  /\ dbReply' = [dbReply EXCEPT ![c] = RowsReply(rows)]
  /\ EnterFinally(c, FormatRows(rows))
  /\ UNCHANGED <<cleanQuery, connection, conns, dbCalls,
                 avars, cvars>>

\* line 44 resolves with a result header instead of rows: rows.length is
\* undefined, both length tests are false, rows.slice throws inside the try
ExecuteHeaderOk(c) ==
  /\ qpc[c] = "executing"
  /\ ~IsInsert(cleanQuery[c])
  /\ dbReply' = [dbReply EXCEPT ![c] = HeaderReply]
  /\ EnterFinally(c, CatchResult(ErrNotArray))
  /\ UNCHANGED <<cleanQuery, connection, conns, dbCalls,
                 avars, cvars>>

\* line 33 / 44 rejects: catch (73-82), then finally
ExecuteFail(c, error) ==
  /\ qpc[c] = "executing"
  /\ dbReply' = [dbReply EXCEPT ![c] = ErrorReply(error)]
  /\ EnterFinally(c, CatchResult(error))
  /\ UNCHANGED <<cleanQuery, connection, conns, dbCalls,
                 avars, cvars>>

\* line 85 resolves: the pending value is returned
EndOk(c) ==
  /\ qpc[c] = "ending"
  /\ conns' = [conns EXCEPT ![ConnOf(c)].open = FALSE, ![ConnOf(c)].endedBy = c]
  /\ qpc' = [qpc EXCEPT ![c] = "returned"]
  /\ qresult' = [qresult EXCEPT ![c] = pending[c]]
  /\ UNCHANGED <<cleanQuery, connection, pending, dbReply, dbCalls,
                 avars, cvars>>

\* line 85 rejects inside the finally block: the rejection replaces the
\* pending return value and leaves the function; whether the connection was
\* torn down is the driver's business
EndFail(c, closed) ==
  /\ qpc[c] = "ending"
  /\ conns' = [conns EXCEPT ![ConnOf(c)].open = ~closed, ![ConnOf(c)].endedBy = c]
  /\ qpc' = [qpc EXCEPT ![c] = "threw"]
  /\ UNCHANGED <<cleanQuery, connection, pending, qresult, dbReply, dbCalls,
                 avars, cvars>>

NextQuery ==
  \/ \E c \in Calls, query \in ConcQueries : Invoke(c, query)
  \/ \E c \in Calls : ConnectOk(c)
  \/ \E c \in Calls, error \in ConnectErrors : ConnectFail(c, error)
  \/ \E c \in Calls, affectedRows \in 0..MaxAffected, insertId \in InsertIds :
       ExecuteInsertOk(c, affectedRows, insertId)
  \/ \E c \in Calls, rows \in QueryRowSets : ExecuteRowsOk(c, rows)
  \/ \E c \in Calls : ExecuteHeaderOk(c)
  \/ \E c \in Calls, error \in ExecuteErrors : ExecuteFail(c, error)
  \/ \E c \in Calls : EndOk(c)
  \/ \E c \in Calls, closed \in BOOLEAN : EndFail(c, closed)

\* one invocation on its own, over every statement and every result
NextOneCall ==
  \/ \E query \in Queries : Invoke(1, query)
  \/ ConnectOk(1)
  \/ \E error \in ConnectErrors : ConnectFail(1, error)
  \/ \E affectedRows \in 0..MaxAffected, insertId \in InsertIds :
       ExecuteInsertOk(1, affectedRows, insertId)
  \/ \E rows \in RowSeqs : ExecuteRowsOk(1, rows)
  \/ ExecuteHeaderOk(1)
  \/ \E error \in ExecuteErrors : ExecuteFail(1, error)
  \/ EndOk(1)
  \/ \E closed \in BOOLEAN : EndFail(1, closed)


(***************************************************************************)
(* generate_and_save_audio: parsing of the response                        *)
(***************************************************************************)
MaxAudioChars == 8

DigitChars == <<"0","1","2","3","4","5","6","7","8","9">>

Base64Chars == UpperChars \o LowerChars \o DigitChars \o <<"+","/">>

IsDigit(ch) == \E i \in 1..10 : DigitChars[i] = ch

DigitValue(ch) == (CHOOSE i \in 1..10 : DigitChars[i] = ch) - 1

RECURSIVE parseInt(_)
\* parseInt(digits, 10) of a non-empty string of decimal digits
parseInt(digits) ==
  IF Len(digits) = 0 THEN 0
  ELSE parseInt(SubSeq(digits, 1, Len(digits) - 1)) * 10 + DigitValue(digits[Len(digits)])

\* s.match(/prefix(\d+)/)?.[1] : the digits captured at the leftmost place
\* where prefix is followed by a digit, <<>> when the pattern does not match
MatchDigits(s, prefix) ==
  LET at == {i \in 1..Len(s) :
               /\ i + Len(prefix) <= Len(s)
               /\ SubSeq(s, i, i + Len(prefix) - 1) = prefix
               /\ IsDigit(s[i + Len(prefix)])}
  IN  IF at = {} THEN <<>>
      ELSE LET i == CHOOSE k \in at : \A j \in at : k <= j
               from == i + Len(prefix)
               stop == {k \in from..Len(s) : \A j \in from..k : IsDigit(s[j])}
               to == CHOOSE k \in stop : \A j \in stop : k >= j
           IN  SubSeq(s, from, to)

rePrefixRate == <<"r","a","t","e","=">>
rePrefixL    == <<"a","u","d","i","o","/","L">>

DefaultSampleRate == 24000
DefaultBitsPerSample == 16

\* line 147 with the default of another common rate
SampleRateOf44100(mimeType) ==
  IF MatchDigits(mimeType, rePrefixRate) = <<>> THEN 44100
  ELSE parseInt(MatchDigits(mimeType, rePrefixRate))

\* line 147
SampleRateOf(mimeType) ==
  IF MatchDigits(mimeType, rePrefixRate) = <<>> THEN DefaultSampleRate
  ELSE parseInt(MatchDigits(mimeType, rePrefixRate))

\* line 148
BitsPerSampleOf(mimeType) ==
  IF MatchDigits(mimeType, rePrefixL) = <<>> THEN DefaultBitsPerSample
  ELSE parseInt(MatchDigits(mimeType, rePrefixL))

\* the characters of a base64 string that carry data: those of the alphabet,
\* up to the first padding character
Base64Digits(chars) ==
  LET pad == {i \in 1..Len(chars) : chars[i] = "="}
      end == IF pad = {} THEN Len(chars)
             ELSE (CHOOSE i \in pad : \A j \in pad : i <= j) - 1
  IN  SelectSeq(SubSeq(chars, 1, end), LAMBDA ch : \E i \in 1..64 : Base64Chars[i] = ch)

Sextet(ch) == (CHOOSE i \in 1..64 : Base64Chars[i] = ch) - 1

\* Buffer.from(audioData, 'base64')
Base64Decode(chars) ==
  LET d == Base64Digits(chars)
      sx == [i \in 1..Len(d) |-> Sextet(d[i])]
      n == (Len(d) * 6) \div 8
      byte(k) ==
        LET j == (k \div 3) * 4
        IN  CASE k % 3 = 0 -> (sx[j + 1] * 4 + sx[j + 2] \div 16) % 256
              [] k % 3 = 1 -> ((sx[j + 2] % 16) * 16 + sx[j + 3] \div 4) % 256
              [] k % 3 = 2 -> ((sx[j + 3] % 4) * 64 + sx[j + 4]) % 256
  IN  [k \in 1..n |-> byte(k - 1)]

(***************************************************************************)
(* generate_and_save_audio: the WAV header                                 *)
(***************************************************************************)
\* DataView.setUint32: the value is truncated to an integer and reduced
\* modulo 2^32, then stored at byte offset `offset` (0-based)
setUint32(view, offset, value, littleEndian) ==
  LET b == <<value % 256, (value \div 256) % 256,
             (value \div 65536) % 256, (value \div 16777216) % 256>>
  IN  [i \in 1..Len(view) |->
         IF i > offset /\ i <= offset + 4
           THEN IF littleEndian THEN b[i - offset] ELSE b[5 - (i - offset)]
           ELSE view[i]]

\* DataView.setUint16: as setUint32, modulo 2^16
setUint16(view, offset, value, littleEndian) ==
  LET b == <<value % 256, (value \div 256) % 256>>
  IN  [i \in 1..Len(view) |->
         IF i > offset /\ i <= offset + 2
           THEN IF littleEndian THEN b[i - offset] ELSE b[3 - (i - offset)]
           ELSE view[i]]

HeaderSize == 44

numChannels == 1

\* bytesPerSample = bitsPerSample / 8 is a fraction when bitsPerSample is not
\* a multiple of 8; the three quantities below are kept in eighths of a byte
bytesPerSampleX8(bits) == bits

blockAlignX8(bits) == numChannels * bytesPerSampleX8(bits)

byteRateX8(rate, bits) == rate * blockAlignX8(bits)

\* the integer a DataView setter makes of a number given in eighths
ToInteger(x8) == x8 \div 8

dataSize(pcm) == Len(pcm)

\* the chunk size taken to be the size of the whole file
chunkSizeWholeFile(pcm) == 44 + dataSize(pcm)

chunkSize(pcm) == 36 + dataSize(pcm)

\* lines 158-177
wavHeader(pcm, rate, bits) ==
  LET v0  == [i \in 1..HeaderSize |-> 0]
      v1  == setUint32(v0, 0, 1380533830, FALSE)
      v2  == setUint32(v1, 4, chunkSize(pcm), TRUE)
      v3  == setUint32(v2, 8, 1463899717, FALSE)
      v4  == setUint32(v3, 12, 1718449184, FALSE)
      v5  == setUint32(v4, 16, 16, TRUE)
      v6  == setUint16(v5, 20, 1, TRUE)
      v7  == setUint16(v6, 22, numChannels, TRUE)
      v8  == setUint32(v7, 24, rate, TRUE)
      v9  == setUint32(v8, 28, ToInteger(byteRateX8(rate, bits)), TRUE)
      v10 == setUint16(v9, 32, ToInteger(blockAlignX8(bits)), TRUE)
      v11 == setUint16(v10, 34, bits, TRUE)
      v12 == setUint32(v11, 36, 1684108385, FALSE)
      v13 == setUint32(v12, 40, dataSize(pcm), TRUE)
  IN  v13

\* line 179: Buffer.concat([Buffer.from(wavHeader), pcmData])
WavBufferOf(pcm, rate, bits) ==
  wavHeader(pcm, rate, bits) \o pcm

(***************************************************************************)
(* generate_and_save_audio: inputs                                         *)
(***************************************************************************)
Absent == [present |-> FALSE, chars |-> <<>>]

Present(chars) == [present |-> TRUE, chars |-> chars]

\* a base64 text of n characters
AudioText(n) == [i \in 1..n |-> Base64Chars[((i * 37) % 64) + 1]]

AudioDatas ==
  {Present(AudioText(n)) : n \in 0..MaxAudioChars}
    \cup {Present(<<"/","w","=","=">>), Absent}

MimeTypes ==
  { Present(<<"a","u","d","i","o","/","L","1","6",";","c","o","d","e","c","=","p","c","m",";","r","a","t","e","=","2","4","0","0","0">>),
    Present(<<"a","u","d","i","o","/","L","1","6">>),
    Present(<<"a","u","d","i","o","/","p","c","m",";","r","a","t","e","=","1","6","0","0","0">>),
    Present(<<"a","u","d","i","o","/","p","c","m">>),
    Present(<<"a","u","d","i","o","/","L","1","2",";","r","a","t","e","=","2","4","0","0","0">>),
    Present(<<"a","u","d","i","o","/","L","2","4",";","r","a","t","e","=","4","8","0","0","0">>),
    Present(<<"a","u","d","i","o","/","L","8",";","r","a","t","e","=","8","0","0","0">>),
    Present(<<"a","u","d","i","o","/","L","6","5","5","5","2",";","r","a","t","e","=","8","0","0","0">>),
    Present(<<"r","a","t","e","=",";","a","u","d","i","o","/","L">>),
    Present(<<"a","u","d","i","o","/","L","8">>),
    Present(<<>>), Absent }

\* what the response of the speech API holds at candidates[0].content.parts[0].inlineData
Responses == [audioData : AudioDatas, mimeType : MimeTypes]

Uuids == {"7c9e", "03fa"}

IoErrors == {"ENOSPC: no space left on device"}

\* x === undefined, which lets the empty string through
FalsyOnlyUndefined(x) == ~x.present

\* !x for a string that may be undefined
Falsy(x) == ~x.present \/ Len(x.chars) = 0

(***************************************************************************)
(* generate_and_save_audio: one invocation                                 *)
(***************************************************************************)
NoAudioText == "No audio data was returned."

outputDir == "sounds"

\* lines 180-181: path.join(outputDir, `audio_output_${uuidv4()}.wav`)
FilePathOf(uuid) == outputDir \o "/" \o "audio_output_" \o uuid \o ".wav"

\* lines 187-189: the text the catch block returns
AudioCatchResult(message) == "An error occurred during audio generation: " \o message

InitAudio ==
  /\ apc = "idle"
  /\ response = [received |-> FALSE, audioData |-> Absent, mimeType |-> Absent]
  /\ sampleRate = 0
  /\ bitsPerSample = 0
  /\ pcmData = <<>>
  /\ wavBuffer = <<>>
  /\ filePath = ""
  /\ aresult = ""
  /\ files = {}

\* lines 109-114: fs.mkdir is started
AudioInvoke ==
  /\ apc = "idle"
  /\ apc' = "mkdir"
  /\ UNCHANGED <<response, sampleRate, bitsPerSample, pcmData, wavBuffer, filePath,
                 aresult, files,
                 qvars, cvars>>

\* a step of the try block throws or an awaited promise rejects: lines 187-189
AudioCatch(message) ==
  /\ apc' = "done"
  /\ aresult' = AudioCatchResult(message)
  /\ UNCHANGED <<response, sampleRate, bitsPerSample, pcmData, wavBuffer, filePath, files,
                 qvars, cvars>>

\* line 114 resolves; lines 116-135: fetch is started
MkdirOk ==
  /\ apc = "mkdir"
  /\ apc' = "fetch"
  /\ UNCHANGED <<response, sampleRate, bitsPerSample, pcmData, wavBuffer, filePath,
                 aresult, files,
                 qvars, cvars>>

MkdirFail(message) == apc = "mkdir" /\ AudioCatch(message)

\* line 131 resolves; line 137: response.json() is started
FetchOk ==
  /\ apc = "fetch"
  /\ apc' = "json"
  /\ UNCHANGED <<response, sampleRate, bitsPerSample, pcmData, wavBuffer, filePath,
                 aresult, files,
                 qvars, cvars>>

FetchFail(message) == apc = "fetch" /\ AudioCatch(message)

\* line 137 resolves with the body r; lines 138-183: either the early return
\* of line 143, or the buffer is built and fs.writeFile is started
JsonOk(r, uuid) ==
  /\ apc = "json"
  /\ response' = [received |-> TRUE, audioData |-> r.audioData, mimeType |-> r.mimeType]
  /\ IF Falsy(r.audioData) \/ Falsy(r.mimeType)
       THEN /\ apc' = "done"
            /\ aresult' = NoAudioText
            /\ UNCHANGED <<sampleRate, bitsPerSample, pcmData, wavBuffer, filePath>>
       ELSE /\ apc' = "write"
            /\ sampleRate' = SampleRateOf(r.mimeType.chars)
            /\ bitsPerSample' = BitsPerSampleOf(r.mimeType.chars)
            /\ pcmData' = Base64Decode(r.audioData.chars)
            /\ wavBuffer' = WavBufferOf(Base64Decode(r.audioData.chars),
                                        SampleRateOf(r.mimeType.chars),
                                        BitsPerSampleOf(r.mimeType.chars))
            /\ filePath' = FilePathOf(uuid)
            /\ UNCHANGED aresult
  /\ UNCHANGED <<files, qvars, cvars>>

JsonFail(message) == apc = "json" /\ AudioCatch(message)

\* line 183 resolves; line 185
WriteOk ==
  /\ apc = "write"
  /\ files' = files \cup {[path |-> filePath, content |-> wavBuffer]}
  /\ aresult' = "Audio successfully saved to: " \o filePath
  /\ apc' = "done"
  /\ UNCHANGED <<response, sampleRate, bitsPerSample, pcmData, wavBuffer, filePath,
                 qvars, cvars>>

WriteFail(message) == apc = "write" /\ AudioCatch(message)

NetErrors == {"fetch failed"}

JsonErrors == {"Unexpected token < in JSON at position 0"}

NextAudio ==
  \/ AudioInvoke
  \/ MkdirOk
  \/ \E message \in IoErrors : MkdirFail(message)
  \/ FetchOk
  \/ \E message \in NetErrors : FetchFail(message)
  \/ \E r \in Responses, uuid \in Uuids : JsonOk(r, uuid)
  \/ \E message \in JsonErrors : JsonFail(message)
  \/ WriteOk
  \/ \E message \in IoErrors : WriteFail(message)

(***************************************************************************)
(* server.js: selectedModel, chatHistory, POST /api/settings, POST /chat   *)
(***************************************************************************)
NumRequests == 2

Requests == 1..NumRequests

Models == {"gemini", "openai"}

\* the values a client may post as `model`
PostedModels == Models \cup {"llama"}

Messages == {"hi"}

InitChat ==
  /\ selectedModel = "gemini"
  /\ chatHistory = <<>>
  /\ cpc = [r \in Requests |-> "idle"]
  /\ llm = [r \in Requests |-> "none"]
  /\ reply = [r \in Requests |-> [status |-> 0, message |-> "", output |-> ""]]

\* lines 24-39: the model getChatModel() builds
getChatModel == IF selectedModel = "openai" THEN "openai" ELSE "gemini"

\* lines 47-57
PostSettings(model) ==
  /\ IF model = "gemini" \/ model = "openai"
       THEN /\ selectedModel' = model
            /\ chatHistory' = <<>>
       ELSE UNCHANGED <<selectedModel, chatHistory>>
  /\ UNCHANGED <<cpc, llm, reply,
                 qvars, avars>>

\* lines 61-77: the model is chosen, createToolCallingAgent is awaited
ChatStart(r, message) ==
  /\ cpc[r] = "idle"
  /\ llm' = [llm EXCEPT ![r] = getChatModel]
  /\ reply' = [reply EXCEPT ![r].message = message]
  /\ cpc' = [cpc EXCEPT ![r] = "creating"]
  /\ UNCHANGED <<selectedModel, chatHistory,
                 qvars, avars>>

\* lines 80-90: agentExecutor.invoke is awaited
ChatInvoke(r) ==
  /\ cpc[r] = "creating"
  /\ cpc' = [cpc EXCEPT ![r] = "invoking"]
  /\ UNCHANGED <<selectedModel, chatHistory, llm, reply,
                 qvars, avars>>

\* the exchange a finished request pushes, tagged with the model that produced it
Exchange(r, output) ==
  << [role |-> "human", content |-> reply[r].message, by |-> llm[r]],
     [role |-> "ai",    content |-> output,           by |-> llm[r]] >>

\* lines 93-97: the two pushes go to the array chatHistory names now
ChatFinish(r, output) ==
  /\ cpc[r] = "invoking"
  /\ chatHistory' = chatHistory \o Exchange(r, output)
  /\ reply' = [reply EXCEPT ![r].status = 200, ![r].output = output]
  /\ cpc' = [cpc EXCEPT ![r] = "done"]
  /\ UNCHANGED <<selectedModel, llm,
                 qvars, avars>>

\* lines 99-102: an awaited promise rejected
ChatFail(r) ==
  /\ cpc[r] \in {"creating", "invoking"}
  /\ reply' = [reply EXCEPT ![r].status = 500]
  /\ cpc' = [cpc EXCEPT ![r] = "done"]
  /\ UNCHANGED <<selectedModel, chatHistory, llm,
                 qvars, avars>>

Outputs == {"hello"}

NextChat ==
  \/ \E model \in PostedModels : PostSettings(model)
  \/ \E r \in Requests, message \in Messages : ChatStart(r, message)
  \/ \E r \in Requests : ChatInvoke(r)
  \/ \E r \in Requests, output \in Outputs : ChatFinish(r, output)
  \/ \E r \in Requests : ChatFail(r)

(***************************************************************************)
(* Specifications: one component runs, the others stay as constructed      *)
(***************************************************************************)
Init == InitQuery /\ InitAudio /\ InitChat

SpecQuery == Init /\ [][NextQuery]_vars

SpecOneCall == Init /\ [][NextOneCall]_vars

SpecAudio == Init /\ [][NextAudio]_vars

SpecChat == Init /\ [][NextChat]_vars

(***************************************************************************)
(* Properties of run_mysql_query                                           *)
(***************************************************************************)
\* C1, as stated: a statement whose lowercased leading token is not one of
\* select, describe, insert, show is answered with the refusal text and
\* reaches no database call: no connection is opened for it and nothing is
\* executed for it.
C1_LeadingTokenRefused ==
  \A c \in Calls :
    (qpc[c] # "idle" /\ LeadingToken(toLowerCase(cleanQuery[c])) \notin AllowedKeywords)
      => /\ qpc[c] = "returned"
         /\ qresult[c] = Refusal
         /\ \A i \in DOMAIN conns : conns[i].owner # c
         /\ \A k \in DOMAIN dbCalls : dbCalls[k].by # c

\* C1, amended: a statement whose trimmed, lowercased text does not start with
\* one of the four keywords is answered with the refusal text and reaches no
\* database call.
C1_PrefixRefused ==
  \A c \in Calls :
    (qpc[c] # "idle" /\
       \A kw \in AllowedKeywords :
          ~(Len(cleanQuery[c]) >= Len(kw) /\
              SubSeq(toLowerCase(cleanQuery[c]), 1, Len(kw)) = kw))
      => /\ qpc[c] = "returned"
         /\ qresult[c] = Refusal
         /\ \A i \in DOMAIN conns : conns[i].owner # c
         /\ \A k \in DOMAIN dbCalls : dbCalls[k].by # c

C1_Witness ==
  /\ qpc[1] = "returned"
  /\ cleanQuery[1] = kwUpdate \o <<" ", "t">>
  /\ qresult[1] = Refusal
  /\ conns = <<>>

\* C2: no invocation of run_mysql_query ends by throwing; each ends by
\* returning a text.
C2_NeverThrows == \A c \in Calls : qpc[c] # "threw"

\* C3: a call opens at most one connection; a call that has returned has
\* ended every connection it opened, itself; a connection is only ever ended
\* by, and only ever executes statements of, the call that opened it; once all
\* calls have returned no connection is open.
C3_ConnectionLifetime ==
  /\ \A c \in Calls : Cardinality({i \in DOMAIN conns : conns[i].owner = c}) <= 1
  /\ \A c \in Calls :
       qpc[c] = "returned" =>
         \A i \in DOMAIN conns :
           conns[i].owner = c => (~conns[i].open /\ conns[i].endedBy = c)
  /\ \A i \in DOMAIN conns : conns[i].endedBy \in {0, conns[i].owner}
  /\ \A k \in DOMAIN dbCalls : conns[dbCalls[k].conn].owner = dbCalls[k].by
  /\ (\A c \in Calls : qpc[c] = "returned") => (\A i \in DOMAIN conns : ~conns[i].open)

C3_Witness ==
  /\ \A c \in Calls : qpc[c] = "returned"
  /\ Len(conns) >= 2
  /\ \E c, d \in Calls :
       /\ dbReply[c].kind = "insert"
       /\ dbReply[d].kind = "error" /\ connection[d] # 0
       /\ conns[connection[c]].endedBy = c
       /\ conns[connection[d]].endedBy = d

\* C4: the text for n rows: n = 0 gives the "no results" text; 1 <= n <= 10
\* gives the count and one line "Row i: {col: val, ...}" per row, in order;
\* n > 10 gives the count, the lines of rows 1..5 and "... and n-5 more
\* records.".
C4_RowRendering ==
  LET RECURSIVE Cols(_)
      Cols(row) ==
        IF Len(row) = 0 THEN ""
        ELSE (IF Len(row) = 1 THEN "" ELSE Cols(SubSeq(row, 1, Len(row) - 1)) \o ", ")
               \o row[Len(row)][1] \o ": "
               \o (IF row[Len(row)][2].t = "number" THEN ToString(row[Len(row)][2].n)
                   ELSE IF row[Len(row)][2].t = "null" THEN "null"
                   ELSE row[Len(row)][2].s)
      Line(i, row) == "Row " \o ToString(i) \o ": {" \o Cols(row) \o "}"
  IN  \A c \in Calls :
        (qpc[c] = "returned" /\ dbReply[c].kind = "rows") =>
          LET rws == dbReply[c].rows
              n == Len(rws)
              out == qresult[c]
          IN  /\ n = 0 => out = NoResultsText
              /\ (1 <= n /\ n <= 10) =>
                   /\ Len(out) = n + 1
                   /\ out[1] = "Found " \o ToString(n) \o " record(s):"
                   /\ \A i \in 1..n : out[i + 1] = Line(i, rws[i])
              /\ n > 10 =>
                   /\ Len(out) = 7
                   /\ out[1] = "Found " \o ToString(n) \o " record(s). Showing first 5:"
                   /\ \A i \in 1..5 : out[i + 1] = Line(i, rws[i])
                   /\ out[7] = "... and " \o ToString(n - 5) \o " more records."

C4_Witness ==
  /\ qpc[1] = "returned"
  /\ dbReply[1].kind = "rows"
  /\ Len(dbReply[1].rows) = 11
  /\ dbReply[1].rows[2] = RowB
  /\ Len(qresult[1]) = 7
  /\ qresult[1][7] = "... and 6 more records."

\* C9: for an insert, the text for affectedRows = 0 and the text for a
\* positive affectedRows (which names the count and the insert id) are both
\* success texts, differ from each other, and differ from every text returned
\* for a caught database error.
C9_InsertTextsDistinct ==
  LET ok == "Query executed successfully"
      zero(c) == qpc[c] = "returned" /\ dbReply[c].kind = "insert"
                   /\ dbReply[c].affectedRows = 0
      some(c) == qpc[c] = "returned" /\ dbReply[c].kind = "insert"
                   /\ dbReply[c].affectedRows > 0
      failed(c) == qpc[c] = "returned" /\ dbReply[c].kind = "error"
  IN  \A c, d \in Calls :
        /\ zero(c) => qresult[c] = <<ok \o " but no rows were affected.">>
        /\ some(c) => qresult[c] =
                        <<ok \o ". " \o ToString(dbReply[c].affectedRows)
                            \o " row(s) affected. Insert ID: "
                            \o ToString(dbReply[c].insertId)>>
        /\ (zero(c) /\ some(d)) => qresult[c] # qresult[d]
        /\ ((zero(c) \/ some(c)) /\ failed(d)) => qresult[c] # qresult[d]

C9_Witness ==
  \E c, d \in Calls :
    /\ qpc[c] = "returned" /\ dbReply[c].kind = "insert" /\ dbReply[c].affectedRows = 0
    /\ qpc[d] = "returned" /\ dbReply[d].kind = "insert" /\ dbReply[d].affectedRows = 2
    /\ qresult[c] = NoRowsAffectedText
    /\ qresult[d] # qresult[c]

(***************************************************************************)
(* Properties of generate_and_save_audio                                   *)
(***************************************************************************)
\* the unsigned little-endian integer of `width` bytes at 0-based offset
\* `offset` of a buffer
UintLE(buf, offset, width) ==
  LET RECURSIVE val(_)
      val(k) == IF k = 0 THEN 0 ELSE val(k - 1) * 256 + buf[offset + width - k + 1]
  IN  val(width)

\* does the descriptor hold `prefix` directly followed by a decimal digit
HasPattern(chars, prefix) ==
  \E i \in 1..Len(chars) :
    /\ i + Len(prefix) <= Len(chars)
    /\ \A j \in 1..Len(prefix) : chars[i + j - 1] = prefix[j]
    /\ chars[i + Len(prefix)] \in {"0","1","2","3","4","5","6","7","8","9"}

\* C5: for N bytes of PCM at 24000 Hz / 16 bit the written file has N + 44
\* bytes, holds "RIFF", "WAVE", "fmt " and "data" at offsets 0, 8, 12 and 36,
\* N + 36 and N as little-endian 32-bit integers at offsets 4 and 40, and the
\* PCM bytes unchanged from offset 44 on.
C5_WavLayout ==
  \A f \in files :
    (sampleRate = 24000 /\ bitsPerSample = 16) =>
      LET N == Len(pcmData)
          b == f.content
      IN  /\ Len(b) = N + 44
          /\ SubSeq(b, 1, 4)   = <<82, 73, 70, 70>>
          /\ SubSeq(b, 9, 12)  = <<87, 65, 86, 69>>
          /\ SubSeq(b, 13, 16) = <<102, 109, 116, 32>>
          /\ SubSeq(b, 37, 40) = <<100, 97, 116, 97>>
          /\ UintLE(b, 4, 4) = N + 36
          /\ UintLE(b, 40, 4) = N
          /\ SubSeq(b, 45, 44 + N) = pcmData

C5_Witness ==
  /\ apc = "done"
  /\ sampleRate = 24000 /\ bitsPerSample = 16
  /\ Len(pcmData) = 6
  /\ \E f \in files : f.path = filePath /\ Len(f.content) = 50

\* C6: in every written file the numeric fields hold the derived values:
\* sample rate at offset 24, bits per sample at offset 34, block align
\* (offset 32) = channels x bitsPerSample / 8 and byte rate (offset 28) =
\* sampleRate x channels x bitsPerSample / 8, with channels = 1.
C6_FieldsHoldDerivedValues ==
  \A f \in files :
    /\ UintLE(f.content, 24, 4) = sampleRate
    /\ UintLE(f.content, 34, 2) = bitsPerSample
    /\ UintLE(f.content, 32, 2) * 8 = 1 * bitsPerSample
    /\ UintLE(f.content, 28, 4) * 8 = sampleRate * 1 * bitsPerSample

C8_NoAudioNoFile ==
  /\ (apc = "done" /\ response.received
        /\ (~response.audioData.present \/ Len(response.audioData.chars) = 0))
       => (aresult = "No audio data was returned." /\ files = {})
  /\ files # {} =>
       (response.received /\ response.audioData.present
          /\ Len(response.audioData.chars) > 0)
  /\ apc = "done" => aresult # ""

C8_Witness ==
  /\ apc = "done"
  /\ response.received
  /\ ~response.audioData.present
  /\ response.mimeType.present
  /\ aresult = NoAudioText
  /\ files = {}

(***************************************************************************)
(* Properties of the chat server                                           *)
(***************************************************************************)
\* C10: chatHistory only holds exchanges produced under the currently
\* selected model: a switch leaves no exchange of a request issued under the
\* model selected before it, in flight or not.
C10_HistoryOfCurrentModel ==
  \A i \in DOMAIN chatHistory : chatHistory[i].by = selectedModel

====
